---- MODULE Spec2Model ----
(***************************************************************************)
(* Model of the reverse proxy server (server.ts + server-schema.ts).       *)
(*                                                                         *)
(* Strings that the code inspects character by character (rule paths and   *)
(* request URLs) are sequences of one-character strings, so "/test" is     *)
(* <<"/", "t", "e", "s", "t">>.  Strings that the code only copies or      *)
(* compares as a whole (upstream ids, hosts, error texts) are TLA+ strings.*)
(***************************************************************************)
EXTENDS Integers, Sequences, FiniteSets, TLC

\* ------------------------------------------------------------------------
\* Bounds of the model
\* ------------------------------------------------------------------------
\* number of inbound HTTP requests the environment issues
MaxReq == 3
\* largest workerCount handed to createServer
MaxWorkers == 2
\* longest request URL enumerated against the README rule list
MaxPathLen == 7
\* longest request URL / rule path enumerated against generated rule lists
MaxSmallLen == 2

\* ------------------------------------------------------------------------
\* Rule matching: config.server.rules.find(e => new RegExp(`^${e.path}.*$`).test(url))
\* ------------------------------------------------------------------------
\* value of an out-of-range array read (rule.upstreams[0] of an empty list)
Undefined == "<undefined>"

\* characters the regular expression atom "." does not match: line feed,
\* carriage return, line separator and paragraph separator (the last two,
\* which the text of a module cannot hold, are written as their code points)
LineTerminators == {"\n", "\r", "U+2028", "U+2029"}

\* one pattern character of the rule path against one character of the URL:
\* the path is pasted into the pattern unescaped, so "." is the wildcard atom
\* and every other character of the modelled alphabet is a literal
AtomMatches(p, c) ==
    IF p = "." THEN c \notin LineTerminators ELSE p = c

\* new RegExp(`^${path}.*$`).test(url): the path atoms match the URL from its
\* first character, and ".*$" must consume the remainder up to the end
RegexTest_NoLengthCheck(path, url) ==
    /\ \A i \in 1..Len(path) : i <= Len(url) => AtomMatches(path[i], url[i])
    /\ \A i \in (Len(path) + 1)..Len(url) : url[i] \notin LineTerminators

RegexTest(path, url) ==
    /\ Len(url) >= Len(path)
    /\ \A i \in 1..Len(path) : AtomMatches(path[i], url[i])
    /\ \A i \in (Len(path) + 1)..Len(url) : url[i] \notin LineTerminators

\* Array.prototype.find over the rules: index of the first rule whose pattern
\* matches, 0 when find returns undefined
FindRule_Last(rules, url) ==
    LET hits == {i \in 1..Len(rules) : RegexTest(rules[i].path, url)}
    IN  IF hits = {} THEN 0 ELSE CHOOSE i \in hits : \A j \in hits : j <= i

FindRule(rules, url) ==
    LET hits == {i \in 1..Len(rules) : RegexTest(rules[i].path, url)}
    IN  IF hits = {} THEN 0 ELSE CHOOSE i \in hits : \A j \in hits : i <= j

\* rule?.upstreams[0]
FirstUpstreamID(rules, ruleIx) ==
    IF ruleIx = 0 THEN Undefined
    ELSE IF Len(rules[ruleIx].upstreams) = 0 THEN Undefined
    ELSE rules[ruleIx].upstreams[1]

\* config.server.upstreams.find(u => u.id === upstreamID): index or 0
FindUpstream(upstreams, upstreamID) ==
    LET hits == {i \in 1..Len(upstreams) : upstreams[i].id = upstreamID}
    IN  IF hits = {} THEN 0 ELSE CHOOSE i \in hits : \A j \in hits : i <= j

\* the reply objects the worker builds
\* (an optional field that is not set is a field the record does not have)
Reply404 == [errorCode |-> "404", error |-> "Rule not found"]
Reply500 == [errorCode |-> "500", error |-> "Upstream server not found"]
ReplyData(body) == [data |-> body]

\* the path of the request line http.request writes for options.path: an
\* empty path is requested as "/"
RequestPath(path) == IF path = << >> THEN <<"/">> ELSE path

WorkerOutcome_UpstreamFirst(cfg, url) ==
    LET ruleIx == FindRule(cfg.rules, url)
        upstreamID == FirstUpstreamID(cfg.rules, ruleIx)
        upIx == FindUpstream(cfg.upstreams, upstreamID)
    IN  IF upIx = 0 THEN [kind |-> "reply", reply |-> Reply500]
        ELSE IF ruleIx = 0 THEN [kind |-> "reply", reply |-> Reply404]
        ELSE [kind |-> "forward",
              upstream |-> cfg.upstreams[upIx].id,
              host |-> cfg.upstreams[upIx].url,
              path |-> RequestPath(url),
              method |-> "GET"]

WorkerOutcome_StripsPrefix(cfg, url) ==
    LET ruleIx == FindRule(cfg.rules, url)
        upstreamID == FirstUpstreamID(cfg.rules, ruleIx)
        upIx == FindUpstream(cfg.upstreams, upstreamID)
    IN  IF ruleIx = 0 THEN [kind |-> "reply", reply |-> Reply404]
        ELSE IF upIx = 0 THEN [kind |-> "reply", reply |-> Reply500]
        ELSE [kind |-> "forward",
              upstream |-> cfg.upstreams[upIx].id,
              host |-> cfg.upstreams[upIx].url,
              path |-> RequestPath(SubSeq(url, Len(cfg.rules[ruleIx].path) + 1,
                                          Len(url))),
              method |-> "GET"]

\* What the worker's message handler does with a request URL: it sends the
\* 404 reply, or the 500 reply, or issues the outbound request.
WorkerOutcome(cfg, url) ==
    LET ruleIx == FindRule(cfg.rules, url)
        upstreamID == FirstUpstreamID(cfg.rules, ruleIx)
        upIx == FindUpstream(cfg.upstreams, upstreamID)
    IN  IF ruleIx = 0 THEN [kind |-> "reply", reply |-> Reply404]
        ELSE IF upIx = 0 THEN [kind |-> "reply", reply |-> Reply500]
        ELSE [kind |-> "forward",
              upstream |-> cfg.upstreams[upIx].id,
              host |-> cfg.upstreams[upIx].url,
              path |-> RequestPath(url),
              method |-> "GET"]

\* ------------------------------------------------------------------------
\* Messages and responses
\* ------------------------------------------------------------------------
\* workerMessageReplySchema: errorCode, when present, is "500" or "404"
ReplySchemaAccepts(reply) ==
    "errorCode" \in DOMAIN reply => reply.errorCode \in {"500", "404"}

\* parseInt of the error codes the schema lets through
ParseInt(s) ==
    CASE s = "404" -> 404
      [] s = "500" -> 500
      [] OTHER -> -1

\* the status line and body the "message" listener writes for a reply
\* (from: the request the worker produced the reply for; history only)
ResponseFor(msg) ==
    IF "errorCode" \in DOMAIN msg.reply
    THEN [status |-> ParseInt(msg.reply.errorCode), body |-> msg.reply.error,
          from |-> msg.for]
    ELSE [status |-> 200, body |-> msg.reply.data, from |-> msg.for]

\* what the "error" listener writes
ErrorResponse == [status |-> 500, body |-> "Internal Server Error", from |-> 0]

\* the value null
Null == "<null>"

\* methods of inbound requests
Methods == {"GET", "POST"}

\* the message the request handler sends to the worker for an inbound
\* request with this URL and method (headers are copied and never read)
Payload(url, method) ==
    [requestType |-> "HTTP", body |-> Null, url |-> url]

\* the body an upstream serves for a path
UpstreamBody(host, path) == [servedBy |-> host, path |-> path]

\* ------------------------------------------------------------------------
\* Configurations and URLs
\* ------------------------------------------------------------------------
\* the rule list and upstreams of the README's config.yaml
ReadmeConfig ==
    [upstreams |-> << [id |-> "jsonplaceholder", url |-> "jsonplaceholder.typicode.com"],
                      [id |-> "dummy", url |-> "dummyjson.com"] >>,
     rules |-> << [path |-> <<"/", "t", "e", "s", "t">>, upstreams |-> <<"dummy">>],
                  [path |-> <<"/">>, upstreams |-> <<"jsonplaceholder">>] >>]

\* the configuration of the running system in the model: one rule that
\* forwards, one whose upstream id is not configured, one with no upstream,
\* and no catch-all
SystemConfig ==
    [upstreams |-> << [id |-> "dummy", url |-> "dummyjson.com"] >>,
     rules |-> << [path |-> <<"/", "t">>, upstreams |-> <<"dummy">>],
                  [path |-> <<"/", "m">>, upstreams |-> <<"ghost">>],
                  [path |-> <<"/", "e">>, upstreams |-> << >>] >>]

\* the configuration file after an edit: "/t" is routed to another upstream
EditedConfig ==
    [upstreams |-> << [id |-> "dummy", url |-> "dummyjson.com"],
                      [id |-> "jsonplaceholder", url |-> "jsonplaceholder.typicode.com"] >>,
     rules |-> << [path |-> <<"/", "t">>, upstreams |-> <<"jsonplaceholder">>],
                  [path |-> <<"/", "m">>, upstreams |-> <<"ghost">>],
                  [path |-> <<"/", "e">>, upstreams |-> << >>] >>]

\* what the entry point of a forked worker process may load and pass to its
\* own createServer call: the file as the master read it, or as edited since
FileConfigs == {SystemConfig, EditedConfig}

\* request URLs the clients of the running system send
SystemURLs == { <<"/", "t">>, <<"/", "m">>, <<"/", "e">>, <<"/", "x">> }

\* all strings over alphabet of length at most n
RECURSIVE StringsUpTo(_, _)
StringsUpTo(alphabet, n) ==
    IF n = 0 THEN { << >> }
    ELSE LET shorter == StringsUpTo(alphabet, n - 1)
         IN  shorter \cup {Append(s, c) : s \in {t \in shorter : Len(t) = n - 1},
                                          c \in alphabet}

ReadmeAlphabet == {"/", "t", "e", "s", "x"}
ReadmeURLs == StringsUpTo(ReadmeAlphabet, MaxPathLen)

SmallAlphabet == {"/", "a", "."}
SmallStrings == StringsUpTo(SmallAlphabet, MaxSmallLen)
SmallUpstreamLists == { << >>, <<"dummy">>, <<"ghost">>, <<"ghost", "dummy">> }
SmallRules == [path : SmallStrings, upstreams : SmallUpstreamLists]
SmallRuleLists == { << >> } \cup {<<r>> : r \in SmallRules}
                     \cup {<<r1, r2>> : r1 \in SmallRules, r2 \in SmallRules}
SmallConfigs ==
    [upstreams : { << [id |-> "dummy", url |-> "dummyjson.com"] >> },
     rules : SmallRuleLists]

\* ------------------------------------------------------------------------
\* State
\* ------------------------------------------------------------------------
VARIABLES
    config,        \* createServerConfiguration.config, closed over by the handlers
    workerCount,   \* createServerConfiguration.workerCount
    WORKER_POOL,   \* the master's array of forked workers (worker ids)
    masterUp,      \* the master process is running
    alive,         \* alive[w]: worker process w is running
    toWorker,      \* toWorker[w]: IPC messages sent to w and not yet handled
    outbound,      \* outbound[w]: outbound upstream requests of w awaiting their end
    toMaster,      \* toMaster[w]: IPC replies sent by w and not yet emitted in the master
    msgListeners,  \* msgListeners[w]: once("message") listeners on w, by request
    errListeners,  \* errListeners[w]: once("error") listeners on w, by request
    reqs,          \* reqs[r]: url and chosen worker of the r-th inbound request
    res,           \* res[r]: what has been written to the r-th response
    deliveries,    \* history: which listeners each emitted reply was handed to
    disconnected,  \* requests whose client closed the connection before a response
    workerConfig,  \* workerConfig[w]: createServerConfiguration.config in worker w
    ticks,         \* the master's next-tick queue: workers whose "error" emit is scheduled
    listening,     \* listening[w]: worker w has registered its "message" handler
    awaiting,      \* "message" listeners stopped at their await: request and reply
    reading,       \* the worker whose channel read is emitting messages, or NoWorker
    rurl,          \* rule resolution on its own: the URL
    rmethod,       \* rule resolution on its own: the method of the inbound request
    rout           \* rule resolution on its own: the outcome, NotRun before

vars == << config, workerCount, WORKER_POOL, masterUp, alive, toWorker, outbound,
           toMaster, msgListeners, errListeners, reqs, res, deliveries, disconnected, awaiting, reading, rurl, rmethod, rout, workerConfig, ticks, listening >>

sysVars == << workerCount, WORKER_POOL, masterUp, alive, toWorker, outbound,
              toMaster, msgListeners, errListeners, reqs, res, deliveries,
              disconnected, ticks, listening, awaiting, reading >>

Workers == 1..MaxWorkers
Requests == 1..MaxReq
NotRun == [kind |-> "notrun"]
NoWorker == 0

ForkPool_StartsAtOne(n) == [i \in 1..(n - 1) |-> i]

\* for (i = 0; i < workerCount; i++) WORKER_POOL.push(cluster.fork(...))
ForkPool(n) == [i \in 1..n |-> i]

\* state of the master right after the fork loop and server.listen
SystemInit(n) ==
    /\ workerCount = n
    /\ WORKER_POOL = ForkPool(n)
    /\ masterUp = TRUE
    /\ alive = [w \in Workers |-> w <= n]
    /\ toWorker = [w \in Workers |-> << >>]
    /\ outbound = [w \in Workers |-> {}]
    /\ toMaster = [w \in Workers |-> << >>]
    /\ msgListeners = [w \in Workers |-> << >>]
    /\ errListeners = [w \in Workers |-> << >>]
    /\ reqs = << >>
    /\ res = << >>
    /\ deliveries = {}
    /\ disconnected = {}
    /\ ticks = << >>
    /\ listening = [w \in Workers |-> FALSE]
    /\ awaiting = << >>
    /\ reading = NoWorker

Init ==
    /\ config = SystemConfig
    /\ \E n \in 0..MaxWorkers : SystemInit(n)
    /\ workerConfig = [w \in Workers |-> config]
    /\ rurl = << >>
    /\ rmethod = "GET"
    /\ rout = NotRun

\* ------------------------------------------------------------------------
\* Master
\* ------------------------------------------------------------------------
\* WORKER_POOL.at(index) for index >= 0
PoolAt(pool, index) ==
    IF index < Len(pool) THEN pool[index + 1] ELSE NoWorker

\* the values Math.floor(Math.random() * length) can take
RandomIndexes(length) == IF length = 0 THEN {0} ELSE 0..(length - 1)

\* res.writeHead throws once the response has been written
Written(resp, r) == resp[r] # << >>

\* worker.emit("error"): the once-listeners run in registration order, each
\* removed before it runs; a listener whose response is already written
\* throws from writeHead, which ends the emit and the master process.
\* listeners: requests with an "error" listener on the worker; resp: responses
EmitError(listeners, resp) ==
    LET bad == {i \in 1..Len(listeners) : Written(resp, listeners[i])}
        stop == IF bad = {} THEN Len(listeners) + 1
                ELSE CHOOSE i \in bad : \A j \in bad : i <= j
        ran == {listeners[i] : i \in 1..(stop - 1)}
    IN  [res |-> [r \in DOMAIN resp |->
                    IF r \in ran THEN <<ErrorResponse>> ELSE resp[r]],
         listeners |-> SubSeq(listeners, stop + 1, Len(listeners)),
         threw |-> bad # {}]

\* http.createServer(function (req, res) {...}): one inbound request
HandleRequest(url, index) ==
    LET worker == PoolAt(WORKER_POOL, index)
        r == Len(reqs) + 1
        res1 == Append(res, << >>)
    IN
    /\ masterUp
    /\ awaiting = << >>
    /\ Len(reqs) < MaxReq
    /\ index \in RandomIndexes(Len(WORKER_POOL))
    /\ reqs' = Append(reqs, [url |-> url, worker |-> worker])
    /\ IF worker = NoWorker
       THEN \* throw new Error("Worker not found.") out of the request handler
            /\ masterUp' = FALSE
            /\ res' = res1
            /\ UNCHANGED << toWorker, msgListeners, errListeners, ticks >>
       ELSE \* worker.send, then the two once-listeners
            /\ msgListeners' = [msgListeners EXCEPT ![worker] = Append(@, r)]
            /\ errListeners' = [errListeners EXCEPT ![worker] = Append(@, r)]
            /\ res' = res1
            /\ UNCHANGED masterUp
            /\ IF alive[worker]
               THEN /\ toWorker' = [toWorker EXCEPT ![worker] =
                                      Append(@, [url |-> url, for |-> r])]
                    /\ UNCHANGED ticks
               ELSE \* the channel of a dead worker is closed: send only
                    \* schedules emit("error") on the worker for the next tick
                    /\ ticks' = Append(ticks, worker)
                    /\ UNCHANGED toWorker
    /\ UNCHANGED << config, workerCount, WORKER_POOL, alive, outbound, toMaster,
                    deliveries, disconnected, awaiting, reading, rurl, rmethod, rout, workerConfig,
                    listening >>

\* the next-tick callback of a failed send: worker.emit("error", ...).  With
\* no "error" listener on the worker the event is thrown and ends the master;
\* otherwise the once-listeners run (EmitError)
ErrorTick ==
    LET w == Head(ticks)
        e == EmitError(errListeners[w], res)
    IN
    /\ masterUp
    /\ ticks # << >>
    /\ ticks' = Tail(ticks)
    /\ IF errListeners[w] = << >>
       THEN /\ masterUp' = FALSE
            /\ UNCHANGED << errListeners, res >>
       ELSE /\ errListeners' = [errListeners EXCEPT ![w] = e.listeners]
            /\ res' = e.res
            /\ masterUp' = ~e.threw
    /\ UNCHANGED << config, workerCount, WORKER_POOL, alive, toWorker, outbound,
                    toMaster, msgListeners, reqs, deliveries, disconnected, awaiting, reading, rurl,
                    rmethod, rout, workerConfig, listening >>

\* worker.emit("message", workerReply): every once("message") listener on the
\* worker is removed and run with the reply up to its await of the schema
\* validation.  The messages of one channel read are emitted one after the
\* other before any listener resumes; the event loop reads a channel only
\* after the next-tick queue and the resumed listeners of the previous
\* callback have run.
MasterReceive(w) ==
    LET msg == Head(toMaster[w])
        ls == msgListeners[w]
        lset == {ls[i] : i \in 1..Len(ls)}
        stopped == awaiting \o [i \in 1..Len(ls) |-> [r |-> ls[i], msg |-> msg]]
    IN
    /\ masterUp
    /\ ticks = << >>
    /\ awaiting = << >> \/ reading = w
    /\ toMaster[w] # << >>
    /\ toMaster' = [toMaster EXCEPT ![w] = Tail(@)]
    /\ msgListeners' = [msgListeners EXCEPT ![w] = << >>]
    /\ awaiting' = stopped
    /\ reading' = IF stopped = << >> THEN NoWorker ELSE w
    /\ deliveries' = deliveries \cup {[for |-> msg.for, to |-> lset]}
    /\ UNCHANGED << config, workerCount, WORKER_POOL, masterUp, alive, toWorker,
                    outbound, errListeners, reqs, res, disconnected, rurl, rmethod,
                    rout, workerConfig, ticks, listening >>

\* the listeners stopped at their await resume, in the order they stopped:
\* each validates its reply and writes its response (ResponseFor); a listener
\* whose reply the schema refuses or whose response is already written
\* rejects, and once all have run the unhandled rejection ends the master
ReplyContinuations ==
    LET ok(i) == /\ ReplySchemaAccepts(awaiting[i].msg.reply)
                 /\ ~Written(res, awaiting[i].r)
        writers(r) == {i \in DOMAIN awaiting : awaiting[i].r = r /\ ok(i)}
    IN
    /\ masterUp
    /\ awaiting # << >>
    /\ res' = [r \in DOMAIN res |->
                 IF writers(r) # {}
                 THEN <<ResponseFor(awaiting[CHOOSE i \in writers(r) :
                                       \A j \in writers(r) : i <= j].msg)>>
                 ELSE res[r]]
    /\ masterUp' = (\A i \in DOMAIN awaiting : ok(i))
    /\ awaiting' = << >>
    /\ reading' = NoWorker
    /\ UNCHANGED << config, workerCount, WORKER_POOL, alive, toWorker, outbound,
                    toMaster, msgListeners, errListeners, reqs, deliveries,
                    disconnected, rurl, rmethod, rout, workerConfig, ticks,
                    listening >>

\* ------------------------------------------------------------------------
\* Worker
\* ------------------------------------------------------------------------
\* the worker process reaches process.on("message", ...): its entry point has
\* loaded the configuration and called createServer, and the await of the
\* validation has resumed
WorkerBoot(w) ==
    /\ masterUp
    /\ alive[w]
    /\ ~listening[w]
    /\ listening' = [listening EXCEPT ![w] = TRUE]
    /\ UNCHANGED << config, workerCount, WORKER_POOL, masterUp, alive, toWorker,
                    outbound, toMaster, msgListeners, errListeners, reqs, res,
                    deliveries, disconnected, awaiting, reading, rurl, rmethod, rout, workerConfig,
                    ticks >>

\* the channel of a worker that is still loading its configuration emits a
\* message while no "message" handler is registered: the message is lost
WorkerDrop(w) ==
    /\ masterUp
    /\ alive[w]
    /\ ~listening[w]
    /\ toWorker[w] # << >>
    /\ toWorker' = [toWorker EXCEPT ![w] = Tail(@)]
    /\ UNCHANGED << config, workerCount, WORKER_POOL, masterUp, alive, outbound,
                    toMaster, msgListeners, errListeners, reqs, res, deliveries,
                    disconnected, awaiting, reading, rurl, rmethod, rout, workerConfig, ticks,
                    listening >>

WorkerReceive_OneAtATime(w) ==
    LET m == Head(toWorker[w])
        out == WorkerOutcome(workerConfig[w], m.url)
    IN
    /\ masterUp
    /\ alive[w]
    /\ listening[w]
    /\ toWorker[w] # << >>
    /\ outbound[w] = {}
    /\ toWorker' = [toWorker EXCEPT ![w] = Tail(@)]
    /\ IF out.kind = "reply"
       THEN /\ toMaster' = [toMaster EXCEPT ![w] =
                              Append(@, [reply |-> out.reply, for |-> m.for])]
            /\ UNCHANGED outbound
       ELSE /\ outbound' = [outbound EXCEPT ![w] =
                              @ \cup {[for |-> m.for, host |-> out.host,
                                       path |-> out.path, method |-> out.method]}]
            /\ UNCHANGED toMaster
    /\ UNCHANGED << config, workerCount, WORKER_POOL, masterUp, alive, msgListeners,
                    errListeners, reqs, res, deliveries, disconnected, awaiting, reading, rurl, rmethod, rout, workerConfig, ticks, listening >>

\* process.on("message", ...): rule lookup, upstream lookup, then either a
\* reply through process.send or the outbound http.request
WorkerReceive(w) ==
    LET m == Head(toWorker[w])
        out == WorkerOutcome(workerConfig[w], m.url)
    IN
    /\ masterUp
    /\ alive[w]
    /\ listening[w]
    /\ toWorker[w] # << >>
    /\ toWorker' = [toWorker EXCEPT ![w] = Tail(@)]
    /\ IF out.kind = "reply"
       THEN /\ toMaster' = [toMaster EXCEPT ![w] =
                              Append(@, [reply |-> out.reply, for |-> m.for])]
            /\ UNCHANGED outbound
       ELSE /\ outbound' = [outbound EXCEPT ![w] =
                              @ \cup {[for |-> m.for, host |-> out.host,
                                       path |-> out.path, method |-> out.method]}]
            /\ UNCHANGED toMaster
    /\ UNCHANGED << config, workerCount, WORKER_POOL, masterUp, alive, msgListeners,
                    errListeners, reqs, res, deliveries, disconnected, awaiting, reading, rurl, rmethod, rout, workerConfig, ticks, listening >>

\* proxyRes.on("end"): the aggregated body is sent as { data: body }
UpstreamEnd(w, o) ==
    /\ masterUp
    /\ alive[w]
    /\ o \in outbound[w]
    /\ outbound' = [outbound EXCEPT ![w] = @ \ {o}]
    /\ toMaster' = [toMaster EXCEPT ![w] =
                      Append(@, [reply |-> ReplyData(UpstreamBody(o.host, o.path)),
                                 for |-> o.for])]
    /\ UNCHANGED << config, workerCount, WORKER_POOL, masterUp, alive, toWorker,
                    msgListeners, errListeners, reqs, res, deliveries, disconnected, awaiting, reading, rurl, rmethod, rout, workerConfig, ticks, listening >>

\* what the master can still read of the replies a worker handed to
\* process.send once the worker process has exited: the replies are written
\* to the channel in order, and those that had not left the process are
\* lost.  An error reply is short and leaves at once unless a data reply,
\* whose body can be of any size, is still being written ahead of it.
KeptReplies(replies) ==
    {SubSeq(replies, 1, k) : k \in {n \in 0..Len(replies) :
        n < Len(replies) => \E i \in 1..(n + 1) : "data" \in DOMAIN replies[i].reply}}

\* the worker process exits: what it had not handled or finished is gone,
\* and so are the replies that had not left the process
WorkerExit(w) ==
    /\ alive' = [alive EXCEPT ![w] = FALSE]
    /\ \E kept \in KeptReplies(toMaster[w]) :
          toMaster' = [toMaster EXCEPT ![w] = kept]
    /\ listening' = [listening EXCEPT ![w] = FALSE]
    /\ toWorker' = [toWorker EXCEPT ![w] = << >>]
    /\ outbound' = [outbound EXCEPT ![w] = {}]

\* the outbound request emits "error" (connection refused, reset, DNS): the
\* request has no "error" listener, so the event is an uncaught exception
\* and the worker process exits
UpstreamError(w, o) ==
    /\ masterUp
    /\ alive[w]
    /\ o \in outbound[w]
    /\ WorkerExit(w)
    /\ UNCHANGED << config, workerCount, WORKER_POOL, masterUp,
                    msgListeners, errListeners, reqs, res, deliveries, disconnected, awaiting, reading, rurl, rmethod, rout, workerConfig, ticks >>

\* the worker process is killed from outside
WorkerKilled(w) ==
    /\ masterUp
    /\ alive[w]
    /\ WorkerExit(w)
    /\ UNCHANGED << config, workerCount, WORKER_POOL, masterUp,
                    msgListeners, errListeners, reqs, res, deliveries, disconnected, awaiting, reading, rurl, rmethod, rout, workerConfig, ticks >>

\* the client of a request that has no response yet closes its connection:
\* the request handler registers no "close" or "aborted" listener on req or
\* res, so nothing in the master reacts
ClientDisconnect(r) ==
    /\ masterUp
    /\ r \in DOMAIN reqs
    /\ r \notin disconnected
    /\ res[r] = << >>
    /\ disconnected' = disconnected \cup {r}
    /\ UNCHANGED << config, workerCount, WORKER_POOL, masterUp, alive, toWorker,
                    outbound, toMaster, msgListeners, errListeners, reqs, res,
                    deliveries, awaiting, reading, rurl, rmethod, rout, workerConfig, ticks, listening >>

Next ==
    \/ \E url \in SystemURLs, index \in 0..MaxWorkers : HandleRequest(url, index)
    \/ ErrorTick
    \/ \E w \in Workers : MasterReceive(w)
    \/ ReplyContinuations
    \/ \E w \in Workers : WorkerBoot(w)
    \/ \E w \in Workers : WorkerDrop(w)
    \/ \E w \in Workers : WorkerReceive(w)
    \/ \E w \in Workers : \E o \in outbound[w] : UpstreamEnd(w, o)
    \/ \E w \in Workers : \E o \in outbound[w] : UpstreamError(w, o)
    \/ \E w \in Workers : WorkerKilled(w)

Spec == Init /\ [][Next]_vars

\* the event loops of the master and of a live worker run the handlers of
\* the messages delivered to them, the master runs its next-tick queue and
\* resumes the listeners stopped at an await; a
\* worker process that runs finishes its start; nothing obliges an upstream
\* to answer
LiveSpec ==
    /\ Init
    /\ [][Next]_vars
    /\ WF_vars(ErrorTick)
    /\ WF_vars(ReplyContinuations)
    /\ \A w \in Workers :
          WF_vars(MasterReceive(w)) /\ WF_vars(WorkerReceive(w)) /\ WF_vars(WorkerBoot(w))

\* the running system with clients that may close their connection early
CancelNext ==
    \/ Next
    \/ \E r \in Requests : ClientDisconnect(r)

CancelSpec == Init /\ [][CancelNext]_vars

\* `configuration` in a worker: the master's config, serialized into the
\* environment of the fork, parsed and validated by the worker
Configuration == config

\* the running system when the worker processes load the configuration
\* themselves: each worker closes over the config its own entry point
\* passed to createServer
ReloadInit ==
    /\ config = SystemConfig
    /\ \E n \in 0..MaxWorkers : SystemInit(n)
    /\ workerConfig \in {f \in [Workers -> FileConfigs] :
                            \A w \in Workers : w > workerCount => f[w] = config}
    /\ rurl = << >>
    /\ rmethod = "GET"
    /\ rout = NotRun

ReloadSpec == ReloadInit /\ [][Next]_vars

\* ------------------------------------------------------------------------
\* Rule resolution on its own
\* ------------------------------------------------------------------------
\* a worker with one of the enumerated configurations is handed one URL
ResolveInit ==
    /\ \/ config = ReadmeConfig /\ rurl \in ReadmeURLs
       \/ config \in SmallConfigs /\ rurl \in SmallStrings
    /\ workerConfig = [w \in Workers |-> config]
    /\ rmethod \in Methods
    /\ SystemInit(0)
    /\ rout = NotRun

\* the rule and upstream lookup of the worker's message handler
Resolve ==
    /\ rout = NotRun
    /\ rout' = WorkerOutcome(config, Payload(rurl, rmethod).url)
    /\ UNCHANGED << config, workerConfig, rurl, rmethod >>
    /\ UNCHANGED sysVars

ResolveNext == Resolve

ResolveSpec == ResolveInit /\ [][ResolveNext]_vars

\* ------------------------------------------------------------------------
\* Properties
\* ------------------------------------------------------------------------
TypeOK ==
    /\ workerCount \in 0..MaxWorkers
    /\ Len(reqs) = Len(res)
    /\ \A r \in DOMAIN res : Len(res[r]) <= 1

Accepted(r) == r <= Len(reqs)
Responded(r) == Accepted(r) /\ res[r] # << >>
\* r was handed to a worker and its response is not written yet
Pending(r) == Accepted(r) /\ reqs[r].worker # NoWorker /\ res[r] = << >>
\* the worker holds the outbound upstream request of r
Forwarded(r) ==
    /\ Accepted(r)
    /\ reqs[r].worker # NoWorker
    /\ \E o \in outbound[reqs[r].worker] : o.for = r

\* the worker r was handed to is running
WorkerRunning(r) ==
    Accepted(r) /\ reqs[r].worker # NoWorker /\ alive[reqs[r].worker]

\* prefix is a literal prefix of s
StartsWith(s, prefix) ==
    /\ Len(prefix) <= Len(s)
    /\ \A i \in 1..Len(prefix) : s[i] = prefix[i]

\* C1: with several requests in flight on one worker, the response written to
\* a client from a worker reply carries the reply produced for that client's
\* own request.
C1_OwnReply ==
    \A r \in DOMAIN res :
        \A i \in DOMAIN res[r] : res[r][i].from # 0 => res[r][i].from = r

\* C2: every reply the master emits is consumed by exactly one pending
\* dispatch, the one that sent the request the reply answers.
C2_ExactlyOneConsumer ==
    \A d \in deliveries : d.to = {d.for}

\* C3: a request whose outbound upstream call is in progress eventually has a
\* response written while master and worker keep running, even when the
\* upstream never answers.
C3_EventuallyAnswered ==
    \A r \in Requests :
        Forwarded(r) ~> (Responded(r) \/ ~masterUp \/ ~WorkerRunning(r))

\* C4: when the outbound request of a worker fails, the worker stays alive
\* and sends a reply with `error` set for that request.
C4_UpstreamFailureReplies ==
    [][\A w \in Workers : \A o \in outbound[w] :
          UpstreamError(w, o) =>
              /\ alive'[w]
              /\ \E i \in DOMAIN toMaster'[w] :
                    /\ toMaster'[w][i].for = o.for
                    /\ "error" \in DOMAIN toMaster'[w][i].reply]_vars

\* C5: a request pending on a worker that has died is eventually answered
\* (with the 500 of WorkerUnavailable) while the master keeps running.
C5_DeadWorkerResolved ==
    \A r \in Requests :
        (Pending(r) /\ ~WorkerRunning(r)) ~> (Responded(r) \/ ~masterUp)

\* C6: a request whose path matches no rule is answered, when the master
\* writes its response from a worker reply, with status 404 and body
\* "Rule not found".
C6_NoRuleIs404 ==
    \A r \in DOMAIN res :
        (/\ FindRule(config.rules, reqs[r].url) = 0
         /\ res[r] # << >>
         /\ res[r][1].from # 0)
        => (res[r][1].status = 404 /\ res[r][1].body = "Rule not found")

\* C7: a request whose first matching rule names no configured upstream is
\* answered, when the master writes its response from a worker reply, with
\* status 500.
C7_MissingUpstreamIs500 ==
    \A r \in DOMAIN res :
        (/\ WorkerOutcome(config, reqs[r].url) = [kind |-> "reply", reply |-> Reply500]
         /\ res[r] # << >>
         /\ res[r][1].from # 0)
        => res[r][1].status = 500

\* the reference operator of C8: first rule in declaration order whose
\* pathPrefix is a literal prefix of the path, its first upstream id only
PrefixFindRule(rules, url) ==
    LET hits == {i \in 1..Len(rules) : StartsWith(url, rules[i].path)}
    IN  IF hits = {} THEN 0 ELSE CHOOSE i \in hits : \A j \in hits : i <= j

PrefixOutcome(cfg, url) ==
    LET ruleIx == PrefixFindRule(cfg.rules, url)
        upstreamID == IF ruleIx = 0 \/ Len(cfg.rules[ruleIx].upstreams) = 0
                      THEN Undefined ELSE cfg.rules[ruleIx].upstreams[1]
        ups == {i \in 1..Len(cfg.upstreams) : cfg.upstreams[i].id = upstreamID}
    IN  IF ruleIx = 0 THEN [kind |-> "reply", reply |-> Reply404]
        ELSE IF ups = {} THEN [kind |-> "reply", reply |-> Reply500]
        ELSE LET u == cfg.upstreams[CHOOSE i \in ups : \A j \in ups : i <= j]
             IN  [kind |-> "forward", upstream |-> u.id, host |-> u.url,
                  path |-> RequestPath(url), method |-> "GET"]

\* C8: for every path and rule list the worker's resolution is that of the
\* literal-prefix reference operator.
C8_ResolveIsPrefixMatch ==
    rout # NotRun => rout = PrefixOutcome(config, rurl)

TestPrefix == <<"/", "t", "e", "s", "t">>
SlashPrefix == <<"/">>

\* C9: with the README rules, every path beginning with "/test" resolves to
\* upstream dummy and every other path beginning with "/" to jsonplaceholder.
C9_ReadmeRouting ==
    (config = ReadmeConfig /\ rout # NotRun) =>
        /\ StartsWith(rurl, TestPrefix) =>
              (rout.kind = "forward" /\ rout.upstream = "dummy")
        /\ (StartsWith(rurl, SlashPrefix) /\ ~StartsWith(rurl, TestPrefix)) =>
              (rout.kind = "forward" /\ rout.upstream = "jsonplaceholder")

\* "/test/x" has been resolved to dummy and "/s" to jsonplaceholder
C9_Witness ==
    /\ config = ReadmeConfig
    /\ rurl = <<"/", "t", "e", "s", "t", "/", "x">>
    /\ rout # NotRun
    /\ rout.kind = "forward"
    /\ rout.upstream = "dummy"

\* C10 as stated: with the README rules the empty path resolves to upstream
\* jsonplaceholder.
C10_EmptyPathCatchAll ==
    (config = ReadmeConfig /\ rurl = << >> /\ rout # NotRun) =>
        (rout.kind = "forward" /\ rout.upstream = "jsonplaceholder")

\* C10 amended: with the README rules the empty path matches no rule and gets
\* the 404 reply "Rule not found"; the "/" rule catches every path that
\* begins with "/".
C10_EmptyPathNotFound ==
    (config = ReadmeConfig /\ rout # NotRun) =>
        /\ rurl = << >> => rout = [kind |-> "reply", reply |-> Reply404]
        /\ StartsWith(rurl, SlashPrefix) => rout.kind = "forward"

\* the empty path has been resolved against the README rules
C10_Witness ==
    /\ config = ReadmeConfig
    /\ rurl = << >>
    /\ rout = [kind |-> "reply", reply |-> Reply404]

\* C11: a request that finds the pool empty is answered with 500 and the
\* generic error body, and the master keeps running.
C11_EmptyPoolIs500 ==
    \A r \in DOMAIN reqs :
        reqs[r].worker = NoWorker =>
            (masterUp /\ res[r] # << >> /\ res[r][1].status = 500)

\* C12: the request handler only ever selects, and sends to, a worker whose
\* process is running.
C12_SelectsReadyWorker ==
    [][\A url \in SystemURLs : \A index \in 0..MaxWorkers :
          (HandleRequest(url, index) /\ PoolAt(WORKER_POOL, index) # NoWorker)
              => alive[PoolAt(WORKER_POOL, index)]]_vars

\* C13: for every reply the "message" listeners consumed, once they have
\* resumed the client response of each of them has the reply's errorCode as
\* status and its error text as body when the reply carries an errorCode, and
\* status 200 with the reply's data as body otherwise.
C13_ResponseMapping ==
    [][ReplyContinuations =>
          LET mapped(resp, reply) ==
                  /\ Len(resp) = 1
                  /\ IF "errorCode" \in DOMAIN reply
                     THEN /\ reply.errorCode = "404" => resp[1].status = 404
                          /\ reply.errorCode = "500" => resp[1].status = 500
                          /\ resp[1].body = reply.error
                     ELSE /\ resp[1].status = 200
                          /\ resp[1].body = reply.data
          IN  \A i \in DOMAIN awaiting :
                  mapped(res'[awaiting[i].r], awaiting[i].msg.reply)]_vars

\* C16: the pool holds exactly workerCount workers from startup on, and no
\* step adds a worker to it or removes one from it.
C16_PoolFixed ==
    /\ [](Len(WORKER_POOL) = workerCount)
    /\ [][WORKER_POOL' = WORKER_POOL /\ workerCount' = workerCount]_vars

\* a worker of the pool has died, requests were served, the pool is whole
C16_Witness ==
    /\ workerCount = MaxWorkers
    /\ Len(WORKER_POOL) = workerCount
    /\ \E w \in Workers : ~alive[w]
    /\ \E r \in DOMAIN res : res[r] # << >>

\* number of messages of the sequence that belong to request r
CountFor(seq, r) == Cardinality({i \in DOMAIN seq : seq[i].for = r})

\* what worker w holds or has sent for request r: the unhandled message, the
\* outbound request, the reply in transit, the reply already emitted
TraceOf(w, r) ==
    CountFor(toWorker[w], r)
    + Cardinality({o \in outbound[w] : o.for = r})
    + CountFor(toMaster[w], r)
    + (IF reqs[r].worker = w /\ \E d \in deliveries : d.for = r THEN 1 ELSE 0)

\* C17: a worker sends at most one reply per message; handling a message
\* sends the 404 reply when no rule matches, else the 500 reply when the
\* upstream id is unknown, in both cases with no outbound request, else it
\* only issues the outbound request, whose end sends the one data reply.
C17_OneReplyInOrder ==
    /\ [](\A r \in DOMAIN reqs : \A w \in Workers : TraceOf(w, r) <= 1)
    /\ [][\A w \in Workers :
            /\ WorkerReceive(w) =>
                 LET m == Head(toWorker[w])
                     ruleIx == FindRule(config.rules, m.url)
                     upIx == FindUpstream(config.upstreams,
                                          FirstUpstreamID(config.rules, ruleIx))
                 IN  IF ruleIx = 0
                     THEN /\ toMaster'[w] = Append(toMaster[w],
                                [reply |-> [errorCode |-> "404",
                                            error |-> "Rule not found"],
                                 for |-> m.for])
                          /\ outbound' = outbound
                     ELSE IF upIx = 0
                     THEN /\ toMaster'[w] = Append(toMaster[w],
                                [reply |-> [errorCode |-> "500",
                                            error |-> "Upstream server not found"],
                                 for |-> m.for])
                          /\ outbound' = outbound
                     ELSE /\ toMaster' = toMaster
                          /\ Cardinality(outbound'[w]) = Cardinality(outbound[w]) + 1
                          /\ \E o \in outbound'[w] \ outbound[w] : o.for = m.for
            /\ \A o \in outbound[w] :
                 UpstreamEnd(w, o) =>
                     /\ Len(toMaster'[w]) = Len(toMaster[w]) + 1
                     /\ toMaster'[w][Len(toMaster'[w])].for = o.for
                     /\ DOMAIN toMaster'[w][Len(toMaster'[w])].reply = {"data"}
                     /\ o \notin outbound'[w]]_vars

\* one worker has sent a 404 reply, a 500 reply and a data reply, each for a
\* different message, and holds no outbound request
C17_Witness ==
    \E w \in Workers :
        /\ outbound[w] = {}
        /\ \E i \in DOMAIN toMaster[w] : toMaster[w][i].reply = Reply404
        /\ \E i \in DOMAIN toMaster[w] : toMaster[w][i].reply = Reply500
        /\ \E i \in DOMAIN toMaster[w] : "data" \in DOMAIN toMaster[w][i].reply

\* request r was answered with the body its own upstream call returned
AnsweredByUpstream(r) ==
    /\ Responded(r)
    /\ res[r][1].from = r
    /\ res[r][1].status = 200

\* C14: while a request awaits its upstream response nothing waits for it:
\* the master, between two callbacks of its event loop, can accept a further
\* request and dispatch it to any worker of the pool and can emit any reply
\* that has arrived; the listeners stopped at their await can resume; every
\* running worker, the one with the slow call included, can finish any of
\* its outbound requests and, its handler being registered, handle its next
\* message.
C14_NeverBlocked ==
    (masterUp /\ \E v \in Workers : outbound[v] # {}) =>
        /\ (awaiting = << >> /\ Len(reqs) < MaxReq) =>
              \A index \in RandomIndexes(Len(WORKER_POOL)) :
                  ENABLED (\E url \in SystemURLs : HandleRequest(url, index))
        /\ awaiting # << >> => ENABLED ReplyContinuations
        /\ \A w \in Workers :
              /\ (ticks = << >> /\ awaiting = << >> /\ toMaster[w] # << >>)
                    => ENABLED MasterReceive(w)
              /\ (alive[w] /\ listening[w] /\ toWorker[w] # << >>)
                    => ENABLED WorkerReceive(w)
              /\ alive[w] => \A o \in outbound[w] : ENABLED UpstreamEnd(w, o)

\* while the first request still awaits its upstream response, a later
\* request on the same worker and a later request on another worker have
\* been forwarded upstream and answered
C14_Witness ==
    \E r1 \in DOMAIN reqs : \E r2 \in DOMAIN reqs : \E r3 \in DOMAIN reqs :
        /\ r1 < r2 /\ r1 < r3
        /\ Forwarded(r1)
        /\ reqs[r2].worker = reqs[r1].worker
        /\ reqs[r3].worker # reqs[r1].worker
        /\ AnsweredByUpstream(r2)
        /\ AnsweredByUpstream(r3)

\* requests with a once("message") listener on worker w
MessageListenersOn(w) == {msgListeners[w][i] : i \in DOMAIN msgListeners[w]}
\* requests with a once("error") listener on worker w
ErrorListenersOn(w) == {errListeners[w][i] : i \in DOMAIN errListeners[w]}

\* C15: once the client of a request has disconnected, no reply listener for
\* that request remains registered on any worker.
C15_CancelRemovesListener ==
    \A r \in disconnected : \A w \in Workers : r \notin MessageListenersOn(w)

\* the next-tick callback that runs next makes worker w emit "error"
EmitsErrorOn(w) ==
    /\ ticks # << >>
    /\ Head(ticks) = w

\* C18: no "message" or "error" listener ever runs writeHead on a response
\* that has already been written.
C18_WrittenAtMostOnce ==
    [][/\ ReplyContinuations
            => \A i \in DOMAIN awaiting : res[awaiting[i].r] = << >>
       /\ \A w \in Workers :
            (ErrorTick /\ EmitsErrorOn(w))
                => \A r \in ErrorListenersOn(w) : res[r] = << >>]_vars

\* requests pending on worker w
PendingOn(w) == {r \in DOMAIN reqs : reqs[r].worker = w /\ res[r] = << >>}

\* C19: a request whose response is written has no "message" and no "error"
\* listener left on any worker, and a worker never carries more listeners
\* than twice the requests pending on it.
C19_NoListenerOutlivesRequest ==
    \A w \in Workers :
        /\ \A r \in DOMAIN res :
              res[r] # << >> =>
                  (r \notin MessageListenersOn(w) /\ r \notin ErrorListenersOn(w))
        /\ Len(msgListeners[w]) + Len(errListeners[w])
              <= 2 * Cardinality(PendingOn(w))

\* C20: when a worker emits "error", every request pending on it, the one
\* whose send raised the error included, is answered 500 "Internal Server
\* Error", and the responses of requests on other workers are untouched.
C20_ErrorAnswersPending ==
    [][\A w \in Workers :
          (ErrorTick /\ EmitsErrorOn(w)) =>
              /\ \A r \in PendingOn(w) :
                    /\ Len(res'[r]) = 1
                    /\ res'[r][1].status = 500
                    /\ res'[r][1].body = "Internal Server Error"
              /\ \A r \in DOMAIN res : reqs[r].worker # w => res'[r] = res[r]]_vars

\* the address of the upstream the first matching rule names first
ResolvedAddress(cfg, url) ==
    LET id == FirstUpstreamID(cfg.rules, FindRule(cfg.rules, url))
    IN  {cfg.upstreams[i].url : i \in {j \in DOMAIN cfg.upstreams :
                                          cfg.upstreams[j].id = id}}

\* C21 as stated: the outbound request for an inbound path (the path of a
\* request line, never empty) targets the resolved upstream's address with
\* exactly the inbound path and the method of the inbound request.
C21_SameMethodAsInbound ==
    (rurl # << >> /\ rout # NotRun /\ rout.kind = "forward") =>
        /\ rout.host \in ResolvedAddress(config, rurl)
        /\ rout.path = rurl
        /\ rout.method = rmethod

\* C21 amended: the outbound request for an inbound path (the path of a
\* request line, never empty) targets the resolved upstream's address with
\* exactly the inbound path and always the method GET, whatever the method
\* of the inbound request.
C21_OutboundIsGet ==
    (rurl # << >> /\ rout # NotRun /\ rout.kind = "forward") =>
        /\ rout.host \in ResolvedAddress(config, rurl)
        /\ rout.path = rurl
        /\ rout.method = "GET"

\* an inbound POST of "/test/x" has been forwarded to dummy's address as a
\* GET of "/test/x"
C21_Witness ==
    /\ config = ReadmeConfig
    /\ rmethod = "POST"
    /\ rurl = <<"/", "t", "e", "s", "t", "/", "x">>
    /\ rout # NotRun
    /\ rout.kind = "forward"
    /\ rout.host = "dummyjson.com"
    /\ rout.path = rurl
    /\ rout.method = "GET"

\* C22: every worker handles each message against the configuration the
\* master handed to it at fork: what it sends or forwards is what the rules
\* and upstreams of that configuration give for the URL.
C22_WorkersUseHandedConfig ==
    [][\A w \in Workers :
          WorkerReceive(w) =>
            LET m == Head(toWorker[w])
                out == WorkerOutcome(Configuration, m.url)
            IN  IF out.kind = "reply"
                THEN /\ toMaster'[w] = Append(toMaster[w],
                                              [reply |-> out.reply, for |-> m.for])
                     /\ outbound' = outbound
                ELSE /\ toMaster' = toMaster
                     /\ \E o \in outbound'[w] \ outbound[w] :
                           o.for = m.for /\ o.host = out.host]_vars

====
